---------------------------- MODULE Spec2Model ----------------------------
(***************************************************************************)
(* Order status service: upstream pagination under a circuit breaker,      *)
(* per-order status comparison, and bounded concurrent webhook delivery.   *)
(*                                                                         *)
(* One OrderService / DropiClient pair is modelled.  A run is one call of  *)
(* OrderService.HandleOrderRequest; the client's breaker outlives runs.    *)
(* The main goroutine's position is pc; every delivery goroutine has its   *)
(* own position in tasks.                                                  *)
(***************************************************************************)
EXTENDS Integers, Sequences, FiniteSets, TLC

(***************************************************************************)
(* Bounds of the model.                                                    *)
(***************************************************************************)
\* most orders upstream holds for one date in the delivery specification
MaxOrders == 2
\* widest semaphore the service is constructed with (0 .. MaxW)
MaxW == 2
\* goroutines calling FetchOrders on the one client at the same time
MaxCallers == 2
\* largest `attempts` and `baseDelay` (in ticks) WithRetry is called with
MaxAttempts == 4
MaxDelay == 2
\* longest history of an order handed to CompareOrderStatus on its own
MaxHist == 3

(***************************************************************************)
(* Program constants.                                                      *)
(***************************************************************************)
pageSize == 150
maxPages == 10
\* retry.WithRetry(ctx, 3, time.Second, ...)
attempts == 3
\* gobreaker.Settings.MaxRequests
MaxRequests == 3
\* gobreaker's default ReadyToTrip: ConsecutiveFailures > 5
TripAfter == 5

VARIABLES
    maxConcurrency, \* OrderService.maxConcurrency
    cb,             \* DropiClient.circuitBreaker
    pc,             \* position of the goroutine running HandleOrderRequest
    ctxDone,        \* the run's ctx.Done() is closed
    page,           \* FetchAllOrders: page
    allOrders,      \* FetchAllOrders: allOrders
    calls,          \* history: FetchOrders calls made by this FetchAllOrders
    httpCalls,      \* history: requests this FetchAllOrders put on the network
    served,         \* history: the pages upstream answered with, in order
    requests,       \* history: the requests put on the network, each with its answer
    lastErr,        \* history: the error of the last FetchOrders call, Nil when it succeeded
    ret,            \* what FetchAllOrders returned: [orders, err]
    out,            \* what HandleOrderRequest returned: [result, err], result "nil" or a ProcessResult
    result,         \* HandleOrderRequest: result
    i,              \* HandleOrderRequest: index of the next order of the loop
    tasks,          \* the delivery goroutines spawned by this run, in spawn order
    sem,            \* len(semaphore)
    wg,             \* the WaitGroup's counter
    failedWebhooks, \* the buffered channel's content
    chClosed,       \* close(failedWebhooks) has run
    panicked,       \* a goroutine sent on the closed channel
    compared,       \* history: indices of the orders passed to CompareOrderStatus
    callers,        \* goroutines calling FetchOrders on the shared client, each its position
    probes,         \* history: calls let through to doFetchOrders since the breaker went half-open
    streak,         \* history: failures reported in a row to the breaker's current generation
    rt,             \* one call of retry.WithRetry: its parameters, locals and history
    cmp,            \* one call of compare.CompareOrderStatus: its argument and result
    resp            \* one upstream response as doFetchOrders classifies it

fetchVars == <<page, allOrders, calls, httpCalls, served, requests, lastErr, ret>>
runVars == <<out, result, i, compared>>
taskVars == <<tasks, sem, wg, failedWebhooks, chClosed, panicked>>
\* the components when they are driven on their own
unitVars == <<callers, probes, streak, rt, cmp, resp>>
vars == <<maxConcurrency, cb, pc, ctxDone, page, allOrders, calls, httpCalls,
          served, requests, lastErr, ret, out, result, i, tasks, sem, wg, failedWebhooks,
          chClosed, panicked, compared, callers, probes, streak, rt, cmp, resp>>

(***************************************************************************)
(* Errors.  kind names the constructor, retryable is AppError.Retryable    *)
(* (false for an error that is no AppError).                               *)
(***************************************************************************)
Err(kind, retryable) == [kind |-> kind, retryable |-> retryable]
Nil == Err("nil", FALSE)

ErrBadRequest == Err("bad_request", FALSE)
ErrUnauthorized == Err("unauthorized", FALSE)
ErrForbidden == Err("forbidden", FALSE)
ErrNotFound == Err("not_found", FALSE)
ErrRateLimited == Err("rate_limited", TRUE)
ErrServiceUnavailable == Err("service_unavailable", TRUE)
ErrExternalAPI(statusCode) == Err("external_api", statusCode >= 500)
\* gobreaker.ErrOpenState, gobreaker.ErrTooManyRequests
ErrOpenState == Err("breaker_open", FALSE)
ErrTooManyRequests == Err("too_many_requests", FALSE)

(***************************************************************************)
(* Orders.                                                                 *)
(***************************************************************************)
Order(id, history) == [ID |-> id, History |-> history]

\* the histories upstream sends in the delivery specification
Histories == {<<>>, <<"A">>, <<"A", "A">>, <<"A", "B">>}

(***************************************************************************)
(* The circuit breaker (gobreaker.CircuitBreaker built by NewDropiClient   *)
(* with MaxRequests 3, Interval 30 s, Timeout 60 s and the library's       *)
(* defaults: ReadyToTrip is ConsecutiveFailures > 5, IsSuccessful is       *)
(* err == nil).  expired stands for expiry.Before(now): the clock has      *)
(* passed the closed state's Interval or the open state's Timeout.         *)
(* Requests and ConsecutiveSuccesses are only ever compared with           *)
(* MaxRequests, so they stop counting there.                               *)
(***************************************************************************)
\* (variant for C14: requests and successes are not counted)
CountedNot(n) == n
\* counts.onRequest, counts.onSuccess
Counted(n) == IF n < MaxRequests THEN n + 1 ELSE MaxRequests

NewGeneration(state) ==
    [state |-> state, Requests |-> 0, ConsecutiveSuccesses |-> 0,
     ConsecutiveFailures |-> 0, expired |-> FALSE]

\* currentState(now)
CurrentState(b) ==
    IF b.state = "closed" /\ b.expired THEN NewGeneration("closed")
    ELSE IF b.state = "open" /\ b.expired THEN NewGeneration("half-open")
    ELSE b

\* (variant for C13: the open state lets the call through)
BeforeRequestOpenPasses(b) ==
    LET c == CurrentState(b) IN
    IF c.state = "half-open" /\ c.Requests >= MaxRequests
    THEN [cb |-> c, err |-> ErrTooManyRequests]
    ELSE [cb |-> [c EXCEPT !.Requests = Counted(@)], err |-> Nil]
\* beforeRequest: the breaker after the call and the error it answers with
BeforeRequest(b) ==
    LET c == CurrentState(b) IN
    IF c.state = "open" THEN [cb |-> c, err |-> ErrOpenState]
    ELSE IF c.state = "half-open" /\ c.Requests >= MaxRequests
         THEN [cb |-> c, err |-> ErrTooManyRequests]
    ELSE [cb |-> [c EXCEPT !.Requests = Counted(@)], err |-> Nil]

OnSuccess(c) ==
    IF c.state = "closed"
    THEN [c EXCEPT !.ConsecutiveSuccesses = Counted(@), !.ConsecutiveFailures = 0]
    ELSE IF c.state = "half-open"
    THEN IF Counted(c.ConsecutiveSuccesses) >= MaxRequests
         THEN NewGeneration("closed")
         ELSE [c EXCEPT !.ConsecutiveSuccesses = Counted(@), !.ConsecutiveFailures = 0]
    ELSE c

\* (variant for C15: a failed probe leaves the breaker half-open)
OnFailureProbeIgnored(c) ==
    IF c.state = "closed"
    THEN IF c.ConsecutiveFailures + 1 > TripAfter
         THEN NewGeneration("open")
         ELSE [c EXCEPT !.ConsecutiveFailures = @ + 1, !.ConsecutiveSuccesses = 0]
    ELSE c
\* onFailure
OnFailure(c) ==
    IF c.state = "closed"
    THEN IF c.ConsecutiveFailures + 1 > TripAfter
         THEN NewGeneration("open")
         ELSE [c EXCEPT !.ConsecutiveFailures = @ + 1, !.ConsecutiveSuccesses = 0]
    ELSE IF c.state = "half-open" THEN NewGeneration("open")
    ELSE c

\* afterRequest(before, success) for the one caller of the run: the generation
\* differs from `before` exactly when currentState starts a new one here
AfterRequest(b, success) ==
    LET c == CurrentState(b) IN
    IF c # b THEN c
    ELSE IF success THEN OnSuccess(c) ELSE OnFailure(c)

(***************************************************************************)
(* DropiClient.doFetchOrders: the outcome for an upstream answer.          *)
(***************************************************************************)
StatusCodes == {200, 201, 204, 302, 400, 401, 403, 404, 422, 429, 500, 502, 503}

\* a response body: malformed JSON, or {objects: [...]}
Body(wellFormed, objects) == [wellFormed |-> wellFormed, objects |-> objects]

Fetched(orders, err) == [orders |-> orders, err |-> err]

Decode(body) ==
    IF body.wellFormed THEN Fetched(body.objects, Nil)
    ELSE Fetched(<<>>, Err("invalid_json", FALSE))

Classify(status, body) ==
    IF status \in {200, 201, 204} THEN Decode(body)
    ELSE IF status = 400 THEN Fetched(<<>>, ErrBadRequest)
    ELSE IF status = 401 THEN Fetched(<<>>, ErrUnauthorized)
    ELSE IF status = 403 THEN Fetched(<<>>, ErrForbidden)
    ELSE IF status = 404 THEN Fetched(<<>>, ErrNotFound)
    ELSE IF status = 429 THEN Fetched(<<>>, ErrRateLimited)
    ELSE IF status = 503 THEN Fetched(<<>>, ErrServiceUnavailable)
    ELSE IF status >= 500 THEN Fetched(<<>>, ErrExternalAPI(status))
    ELSE IF status >= 400 THEN Fetched(<<>>, ErrExternalAPI(status))
    ELSE Decode(body)

\* c.http.Do failed: the network, or the request's context
TransportErrors == {Err("request_error", FALSE)}
ContextErrors == {Err("request_error_context", FALSE)}

\* what one request on the network can come back with
Outcomes(pages) ==
    {Classify(status, Body(TRUE, p)) : status \in StatusCodes, p \in pages}
        \cup {Classify(status, Body(FALSE, <<>>)) : status \in StatusCodes}
        \cup {Fetched(<<>>, e) : e \in TransportErrors}
        \cup {Fetched(<<>>, e) : e \in IF ctxDone THEN ContextErrors ELSE {}}

\* pages of the delivery specification: up to MaxOrders orders, any histories
SmallPages ==
    UNION {{[j \in 1..n |-> Order(j, h[j])] : h \in [1..n -> Histories]} : n \in 0..MaxOrders}

\* pages of the pagination specification: the next page upstream holds, full or
\* short; the orders of the k-th page served are numbered from 1000 * k
BigPages ==
    {[j \in 1..n |-> Order(1000 * (Len(served) + 1) + j, <<"A", "A">>)] :
        n \in {0, 37, pageSize - 1, pageSize}}

\* what FetchAllOrders passes to c.FetchOrders for page p: the date, pageSize
\* as the limit, the closing date
FetchOrdersArgs(p) == [date |-> "date", limit |-> pageSize, dateUtil |-> "dateUtil"]

\* the query string doFetchOrders builds from its arguments
Query(args) ==
    [from |-> args.date, result_number |-> args.limit,
     filter_date_by |-> "FECHA DE CAMBIO DE ESTATUS", until |-> args.dateUtil]

\* a request on the network, and the request once c.http.Do has returned and
\* the response is classified
Request(query) == [query |-> query, done |-> FALSE, answer |-> Fetched(<<>>, Nil)]
Answer(request, fetched) == [request EXCEPT !.done = TRUE, !.answer = fetched]

\* pages of an upstream that answers a query it has answered before with the
\* same page, and any other query as BigPages says
UpstreamPages ==
    LET query == requests[Len(requests)].query
        before == {k \in DOMAIN requests :
                     /\ requests[k].done /\ requests[k].answer.err = Nil
                     /\ requests[k].query = query}
    IN  IF before = {} THEN BigPages ELSE {requests[k].answer.orders : k \in before}

(***************************************************************************)
(* DropiClient.FetchAllOrders, with FetchOrders and doFetchOrders.         *)
(***************************************************************************)
\* FetchAllOrders returns
ReturnFetchAll(orders, err) ==
    /\ ret' = Fetched(orders, err)
    /\ pc' = "fetched"

\* (variant for C10: every page's error is returned)
FirstPageOnly(p) == TRUE
\* `if page == 1`: an error of the first page is returned
FirstPage(p) == p = 1

\* (variant for C8: a full page ends the loop too)
NoMorePagesAtFull(fetched) == Len(fetched) <= pageSize
\* `if len(orders) < pageSize`: there are no more pages
NoMorePages(fetched) == Len(fetched) < pageSize

\* (variant for C9: the loop runs one page past the cap)
LoopGoesOnPastCap(p) == p <= maxPages + 1
\* `for page <= maxPages`
LoopGoesOn(p) == p <= maxPages

\* the loop body after c.FetchOrders has returned (fetched, err)
AfterFetchOrders(fetched, err) ==
    /\ lastErr' = err
    /\ IF err # Nil
       THEN /\ UNCHANGED <<page, allOrders>>
            /\ IF FirstPage(page)
               THEN ReturnFetchAll(<<>>, err)
               ELSE ReturnFetchAll(allOrders, Nil)
       ELSE /\ allOrders' = allOrders \o fetched
            /\ IF NoMorePages(fetched)
               THEN /\ page' = page
                    /\ ReturnFetchAll(allOrders', Nil)
               ELSE /\ page' = page + 1
                    /\ IF LoopGoesOn(page')
                       THEN pc' = "fetchLoop" /\ ret' = ret
                       ELSE ReturnFetchAll(allOrders', Nil)

\* loop head: the select on ctx.Done(), then FetchOrders up to beforeRequest
FetchLoop ==
    /\ pc = "fetchLoop"
    /\ IF ctxDone
       THEN /\ ReturnFetchAll(allOrders, Nil)
            /\ UNCHANGED <<cb, page, allOrders, calls, lastErr>>
       ELSE /\ calls' = calls + 1
            /\ cb' = BeforeRequest(cb).cb
            /\ IF BeforeRequest(cb).err # Nil
               THEN AfterFetchOrders(<<>>, BeforeRequest(cb).err)
               ELSE pc' = "doFetch" /\ UNCHANGED <<page, allOrders, lastErr, ret>>
    /\ UNCHANGED <<unitVars, maxConcurrency, ctxDone, httpCalls, served, requests, runVars,
                   taskVars>>

\* doFetchOrders up to c.http.Do: the select on ctx.Done() and the request
DoFetch ==
    /\ pc = "doFetch"
    /\ IF ctxDone
       THEN /\ cb' = AfterRequest(cb, FALSE)
            /\ AfterFetchOrders(<<>>, Err("context_cancelled_before_request", FALSE))
            /\ UNCHANGED <<httpCalls, requests>>
       ELSE /\ httpCalls' = httpCalls + 1
            /\ requests' = Append(requests, Request(Query(FetchOrdersArgs(page))))
            /\ pc' = "http"
            /\ UNCHANGED <<cb, page, allOrders, lastErr, ret>>
    /\ UNCHANGED <<unitVars, maxConcurrency, ctxDone, calls, served, runVars, taskVars>>

\* c.http.Do returns; doFetchOrders classifies; Execute reports to the breaker
HttpReturn(pages) ==
    /\ pc = "http"
    /\ \E r \in Outcomes(pages) :
          /\ cb' = AfterRequest(cb, r.err = Nil)
          /\ served' = IF r.err = Nil THEN Append(served, r.orders) ELSE served
          /\ requests' = [requests EXCEPT ![Len(requests)] = Answer(@, r)]
          /\ AfterFetchOrders(r.orders, r.err)
    /\ UNCHANGED <<unitVars, maxConcurrency, ctxDone, calls, httpCalls, runVars, taskVars>>

\* the clock passes the breaker's expiry; the breaker reads it in currentState,
\* which only FetchOrders calls
Tick ==
    /\ pc \in {"fetchLoop", "http"}
    /\ cb.state \in {"closed", "open"}
    /\ ~cb.expired
    /\ cb' = [cb EXCEPT !.expired = TRUE]
    /\ UNCHANGED <<unitVars, maxConcurrency, pc, ctxDone, fetchVars, runVars, taskVars>>

\* the run's deadline elapses (context.WithTimeout in ProcessOrders)
Deadline ==
    /\ pc # "returned"
    /\ ~ctxDone
    /\ ctxDone' = TRUE
    /\ UNCHANGED <<unitVars, maxConcurrency, cb, pc, fetchVars, runVars, taskVars>>

(***************************************************************************)
(* compare.CompareOrderStatus                                              *)
(***************************************************************************)
CompareResult(err, changed, old, new, id, hSize) ==
    [err |-> err, Changed |-> changed, OldStatus |-> old, NewStatus |-> new,
     OrderID |-> id, HistorySize |-> hSize]

\* (variant for C19: the last entry is compared with the first)
CompareOrderStatusFirstLast(order) ==
    LET hSize == Len(order.History) IN
    IF hSize = 0
    THEN CompareResult(Err("history_is_empty", FALSE), FALSE, "", "", 0, 0)
    ELSE IF hSize = 1
    THEN CompareResult(Nil, TRUE, "", order.History[hSize], order.ID, hSize)
    ELSE CompareResult(Nil, order.History[hSize] # order.History[1],
                       order.History[1], order.History[hSize], order.ID, hSize)
\* (variant for C21: an empty history is no change)
CompareOrderStatusEmptyUnchanged(order) ==
    LET hSize == Len(order.History) IN
    IF hSize = 0
    THEN CompareResult(Nil, FALSE, "", "", order.ID, 0)
    ELSE IF hSize = 1
    THEN CompareResult(Nil, TRUE, "", order.History[hSize], order.ID, hSize)
    ELSE CompareResult(Nil, order.History[hSize] # order.History[hSize - 1],
                       order.History[hSize - 1], order.History[hSize], order.ID, hSize)
\* (variant for C20: a history of one entry cannot be compared)
CompareOrderStatusNeedsTwo(order) ==
    LET hSize == Len(order.History) IN
    IF hSize < 2
    THEN CompareResult(Err("history_has_less_than_2_items", FALSE), FALSE, "", "", 0, 0)
    ELSE CompareResult(Nil, order.History[hSize] # order.History[hSize - 1],
                       order.History[hSize - 1], order.History[hSize], order.ID, hSize)
CompareOrderStatus(order) ==
    LET hSize == Len(order.History) IN
    IF hSize = 0
    THEN CompareResult(Err("history_is_empty", FALSE), FALSE, "", "", 0, 0)
    ELSE IF hSize = 1
    THEN CompareResult(Nil, TRUE, "", order.History[hSize], order.ID, hSize)
    ELSE CompareResult(Nil, order.History[hSize] # order.History[hSize - 1],
                       order.History[hSize - 1], order.History[hSize], order.ID, hSize)

(***************************************************************************)
(* OrderService.HandleOrderRequest: the main goroutine.                    *)
(***************************************************************************)
ProcessResult(total) ==
    [TotalOrders |-> total, OrdersProcessed |-> 0, ChangesDetected |-> 0,
     WebhooksQueued |-> 0, WebhooksPending |-> 0, OrdersSkipped |-> 0,
     Errors |-> <<>>, Details |-> <<>>, FailedWebhooks |-> <<>>,
     PartialTimeout |-> FALSE]

\* (variant for C33: the detail does not carry the comparison's verdict)
OrderStatusVerdictDropped(c) ==
    [OrderID |-> c.OrderID, PreviousState |-> c.OldStatus, CurrentState |-> c.NewStatus,
     Changed |-> FALSE]
\* the serviceresponse.OrderStatus built from the comparison
OrderStatus(c) ==
    [OrderID |-> c.OrderID, PreviousState |-> c.OldStatus, CurrentState |-> c.NewStatus,
     Changed |-> c.Changed]

\* result.Errors entries
Note(kind, n) == [kind |-> kind, n |-> n]

\* HandleOrderRequest returns (result, err); result is nil or points to `result`
Return(res, err) ==
    /\ out' = [result |-> res, err |-> err]
    /\ pc' = "returned"

orders == ret.orders

\* a delivery goroutine as `go func(...)` leaves it: about to send on semaphore
Task(order) ==
    [orderID |-> order.ID, pc |-> "acquire", i |-> 0, attemptCount |-> 0, err |-> Nil,
     posts |-> <<>>, reported |-> FALSE]

\* (variant for C4: the flag is left unset)
CancelledUnflagged(res) ==
    [res EXCEPT !.Errors = Append(@, Note("cancelled", res.OrdersProcessed))]
\* the result of the early exit: the note and the partial-timeout flag
Cancelled(res) ==
    [res EXCEPT !.Errors = Append(@, Note("cancelled", res.OrdersProcessed)),
                !.PartialTimeout = TRUE]

\* (variant for C6: the early exit returns ctx.Err())
EarlyReturnCtxErr == Return("nil", Err("context_deadline_exceeded", FALSE))
\* `return result, nil` of the early exit
EarlyReturn == Return("result", Nil)

\* (variant for C25: no orders is an error of the run)
EmptyReturnErr == Return("nil", Err("no_orders", FALSE))
\* `return result, nil` when there are no orders
EmptyReturn == Return("result", Nil)

\* (variant for C26: the newest detail comes first)
PrependDetail(details, d) == <<d>> \o details
\* result.Details = append(result.Details, statusInfo)
AppendDetail(details, d) == Append(details, d)

\* (variant for C30: every compared order is notified)
ShouldNotifyAlways(c) == TRUE
\* `if compareResult.Changed`
ShouldNotify(c) == c.Changed

\* FetchAllOrders has returned: lines up to the loop
HandleFetched ==
    /\ pc = "fetched"
    /\ IF ret.err # Nil
       THEN /\ Return("nil", ret.err)
            /\ UNCHANGED result
       ELSE /\ result' = ProcessResult(Len(orders))
            /\ IF Len(orders) = 0
               THEN EmptyReturn
               ELSE pc' = "iter" /\ out' = out
    /\ UNCHANGED <<unitVars, maxConcurrency, cb, ctxDone, fetchVars, i, compared, taskVars>>

\* (variant for C34: the loop leaves the last order out)
RangeDoneOneEarly(next, os) == next >= Len(os)
\* `for i := range orders` has no order left (next counts from 1)
RangeDone(next, os) == next > Len(os)

\* one pass of `for i := range orders`
Iterate ==
    /\ pc = "iter"
    /\ IF ctxDone
       THEN /\ result' = Cancelled(result)
            /\ EarlyReturn
            /\ UNCHANGED <<i, compared, tasks, wg>>
       ELSE LET order == orders[i]
                c == CompareOrderStatus(order)
                counted == [result EXCEPT !.OrdersProcessed = @ + 1]
            IN  /\ compared' = Append(compared, i)
                /\ IF c.err # Nil
                   THEN /\ result' = [counted EXCEPT
                                         !.OrdersSkipped = @ + 1,
                                         !.Errors = Append(@, Note("skipped", order.ID))]
                        /\ UNCHANGED <<tasks, wg>>
                   ELSE IF ShouldNotify(c)
                   THEN /\ result' = [counted EXCEPT
                                         !.Details = AppendDetail(@, OrderStatus(c)),
                                         !.ChangesDetected = @ + 1,
                                         !.WebhooksQueued = @ + 1]
                        /\ wg' = wg + 1
                        /\ tasks' = Append(tasks, Task(order))
                   ELSE /\ result' = [counted EXCEPT
                                         !.Details = AppendDetail(@, OrderStatus(c))]
                        /\ UNCHANGED <<tasks, wg>>
                /\ i' = i + 1
                /\ pc' = IF RangeDone(i', orders) THEN "wait" ELSE "iter"
                /\ out' = out
    /\ UNCHANGED <<unitVars, maxConcurrency, cb, ctxDone, fetchVars, sem, failedWebhooks, chClosed,
                   panicked>>

\* (variant for C3: the join does not wait)
WaitReturnsAtOnce == TRUE
\* wg.Wait() may return
WaitReturns == wg = 0

\* after the loop: wg.Wait() when webhooks were queued, then close(failedWebhooks)
WaitAndClose ==
    /\ pc = "wait"
    /\ result.WebhooksQueued > 0 => WaitReturns
    /\ chClosed' = TRUE
    /\ pc' = "drain"
    /\ UNCHANGED <<unitVars, maxConcurrency, cb, ctxDone, fetchVars, runVars, tasks, sem, wg,
                   failedWebhooks, panicked>>

RECURSIVE WebhookNotes(_)
WebhookNotes(failed) ==
    IF failed = <<>> THEN <<>>
    ELSE <<Note("webhook_failed", Head(failed).OrderID)>> \o WebhookNotes(Tail(failed))

\* (variant for C32: one receive from the channel instead of the range loop)
DrainedFirstOnly(res, failed) ==
    LET first == IF failed = <<>> THEN <<>> ELSE <<Head(failed)>> IN
    [res EXCEPT !.FailedWebhooks = @ \o first,
                !.Errors = @ \o WebhookNotes(first),
                !.WebhooksPending = 0]
\* the result after `for failed := range failedWebhooks` has appended every
\* record and its note, and WebhooksPending is set
Drained(res, failed) ==
    [res EXCEPT !.FailedWebhooks = @ \o failed,
                !.Errors = @ \o WebhookNotes(failed),
                !.WebhooksPending = 0]

\* the drain of the closed channel, then `return result, nil`
Drain ==
    /\ pc = "drain"
    /\ result' = Drained(result, failedWebhooks)
    /\ failedWebhooks' = <<>>
    /\ Return("result", Nil)
    /\ UNCHANGED <<unitVars, maxConcurrency, cb, ctxDone, fetchVars, i, compared, tasks, sem, wg,
                   chClosed, panicked>>

(***************************************************************************)
(* The delivery goroutine of HandleOrderRequest, with Sender.SendWebhook   *)
(* and retry.WithRetry(ctx, 3, time.Second, fn).                           *)
(***************************************************************************)
\* ctx.Err()
ContextErr == Err("context_deadline_exceeded", FALSE)
\* what fn returns when the POST fails: a non-2xx status (a transport failure
\* is returned the same way), or the request's context ending it
WebhookFailed == Err("webhook_failed_with_status", FALSE)
WebhookCancelled == Err("webhook_request_context", FALSE)

FailedWebhook(task, err) == [OrderID |-> task.orderID, Error |-> err.kind]

\* one POST as the receiver sees it: its X-Retry-Attempt header, and how
\* httpClient.Do ended ("pending" until it returns)
Post(header, answer) == [header |-> header, answer |-> answer]

\* fn returns nil exactly for a status in 200..299; the POST in flight, if any,
\* ended the way err says
Answered(posts, err) ==
    IF posts # <<>> /\ posts[Len(posts)].answer = "pending"
    THEN [posts EXCEPT ![Len(posts)].answer = IF err = Nil THEN "2xx" ELSE err.kind]
    ELSE posts

Holding == {"check", "post", "sleep"}

\* (variant for C24: the channel is as wide as the semaphore)
CapacityOfSemaphore == maxConcurrency
\* make(chan serviceresponse.FailedWebhook, len(orders))
Capacity == Len(orders)

\* (variant for C23: a failed delivery returns without releasing its slot)
FinishHoldingOnFailure(t, err) ==
    /\ tasks' = [tasks EXCEPT ![t].pc = "done", ![t].err = err,
                             ![t].posts = Answered(@, err),
                             ![t].reported = err # Nil /\ ~chClosed]
    /\ IF err = Nil
       THEN UNCHANGED <<failedWebhooks, panicked>>
       ELSE IF chClosed
       THEN panicked' = TRUE /\ UNCHANGED failedWebhooks
       ELSE /\ Len(failedWebhooks) < Capacity
            /\ failedWebhooks' = Append(failedWebhooks, FailedWebhook(tasks[t], err))
            /\ UNCHANGED panicked
    /\ sem' = IF err = Nil THEN sem - 1 ELSE sem
    /\ wg' = wg - 1
\* SendWebhook has returned err: the send on failedWebhooks when err is not nil,
\* which waits while the channel is full, then the deferred release of the slot
\* and wg.Done()
Finish(t, err) ==
    /\ tasks' = [tasks EXCEPT ![t].pc = "done", ![t].err = err,
                             ![t].posts = Answered(@, err),
                             ![t].reported = err # Nil /\ ~chClosed]
    /\ IF err = Nil
       THEN UNCHANGED <<failedWebhooks, panicked>>
       ELSE IF chClosed
       THEN panicked' = TRUE /\ UNCHANGED failedWebhooks
       ELSE /\ Len(failedWebhooks) < Capacity
            /\ failedWebhooks' = Append(failedWebhooks, FailedWebhook(tasks[t], err))
            /\ UNCHANGED panicked
    /\ sem' = sem - 1
    /\ wg' = wg - 1

\* (variant for C1: the send on semaphore never blocks)
TaskAcquireUnbounded(t) ==
    /\ tasks[t].pc = "acquire"
    /\ sem' = sem + 1
    /\ tasks' = [tasks EXCEPT ![t].pc = "check", ![t].i = 1]
    /\ UNCHANGED <<wg, failedWebhooks, panicked>>
\* semaphore <- struct{}{} goes through; SendWebhook runs up to WithRetry's loop
TaskAcquire(t) ==
    /\ tasks[t].pc = "acquire"
    /\ sem < maxConcurrency
    /\ sem' = sem + 1
    /\ tasks' = [tasks EXCEPT ![t].pc = "check", ![t].i = 1]
    /\ UNCHANGED <<wg, failedWebhooks, panicked>>

\* (variant for C31: the header counts the attempts from zero)
XRetryAttemptFromZero(count) == count - 1
\* req.Header.Set("X-Retry-Attempt", fmt.Sprintf("%d", attemptCount))
XRetryAttempt(count) == count

\* WithRetry: the select on ctx.Done() before attempt i, then fn up to httpClient.Do
TaskCheck(t) ==
    /\ tasks[t].pc = "check"
    /\ IF ctxDone
       THEN Finish(t, ContextErr)
       ELSE /\ tasks' = [tasks EXCEPT
                            ![t].pc = "post",
                            ![t].attemptCount = @ + 1,
                            ![t].posts = Append(@, Post(XRetryAttempt(tasks[t].attemptCount + 1),
                                                        "pending"))]
            /\ UNCHANGED <<sem, wg, failedWebhooks, panicked>>

\* httpClient.Do returns; WithRetry returns or goes to sleep
TaskPost(t) ==
    /\ tasks[t].pc = "post"
    /\ \E err \in {Nil, WebhookFailed} \cup (IF ctxDone THEN {WebhookCancelled} ELSE {}) :
          IF err = Nil \/ tasks[t].i = attempts
          THEN Finish(t, err)
          ELSE /\ tasks' = [tasks EXCEPT ![t].pc = "sleep", ![t].err = err,
                                          ![t].posts = Answered(@, err)]
               /\ UNCHANGED <<sem, wg, failedWebhooks, panicked>>

\* the select of the backoff sleep: the timer, or ctx.Done()
TaskSleep(t) ==
    /\ tasks[t].pc = "sleep"
    /\ \E woke \in {"timer"} \cup (IF ctxDone THEN {"ctx"} ELSE {}) :
          IF woke = "ctx"
          THEN Finish(t, ContextErr)
          ELSE /\ tasks' = [tasks EXCEPT ![t].pc = "check", ![t].i = @ + 1]
               /\ UNCHANGED <<sem, wg, failedWebhooks, panicked>>

TaskStep(t) ==
    /\ t \in DOMAIN tasks
    /\ (TaskAcquire(t) \/ TaskCheck(t) \/ TaskPost(t) \/ TaskSleep(t))
    /\ UNCHANGED <<unitVars, maxConcurrency, cb, pc, ctxDone, fetchVars, runVars, chClosed>>

(***************************************************************************)
(* Runs.                                                                   *)
(***************************************************************************)
AllDone == \A t \in DOMAIN tasks : tasks[t].pc = "done"

\* HandleOrderRequest is called
Call ==
    /\ pc' = "fetchLoop"
    /\ ctxDone' = FALSE
    /\ page' = 1
    /\ allOrders' = <<>>
    /\ calls' = 0
    /\ httpCalls' = 0
    /\ served' = <<>>
    /\ requests' = <<>>
    /\ lastErr' = Nil
    /\ ret' = Fetched(<<>>, Nil)
    /\ out' = [result |-> "nil", err |-> Nil]
    /\ result' = ProcessResult(0)
    /\ i' = 1
    /\ tasks' = <<>>
    /\ sem' = 0
    /\ wg' = 0
    /\ failedWebhooks' = <<>>
    /\ chClosed' = FALSE
    /\ panicked' = FALSE
    /\ compared' = <<>>
    /\ UNCHANGED <<unitVars, maxConcurrency, cb>>

\* the next request, once the goroutines of the last one are gone
NextRun ==
    /\ pc = "returned"
    /\ AllDone
    /\ Call

\* the pagination specification leaves a run when its loop over the orders starts
NextFetch ==
    /\ pc \in {"returned", "iter"}
    /\ Call

(***************************************************************************)
(* FetchOrders called by several goroutines on the one client: each call   *)
(* is circuitBreaker.Execute, that is beforeRequest, doFetchOrders when    *)
(* the breaker lets the call through, and afterRequest.  A call in flight  *)
(* is stale when the breaker has started a new generation since its        *)
(* beforeRequest: afterRequest then finds generation != before.            *)
(***************************************************************************)
Callers == 1..MaxCallers

\* one call: where it is, what it was called with, whether it is stale, what
\* it returned, whether it put a request on the network
Caller(cpc, args, stale, err, net) ==
    [pc |-> cpc, args |-> args, stale |-> stale, err |-> err, net |-> net]

\* the arguments of a call: all there, or one of them missing or malformed
Args == {"ok", "no_api_key", "no_date", "no_suffix", "short_suffix"}

\* doFetchOrders' checks of its arguments, and BuildDropiURL's of the suffix
Precondition(args) ==
    IF args = "no_api_key" THEN Err("api_key_required", FALSE)
    ELSE IF args = "no_date" THEN Err("date_is_required", FALSE)
    ELSE IF args = "no_suffix" THEN Err("dropi_country_suffix_is_required", FALSE)
    ELSE IF args = "short_suffix" THEN Err("error_building_dropi_url", FALSE)
    ELSE Nil

\* what doFetchOrders comes back with
FetchErrors == {ErrServiceUnavailable, ErrUnauthorized}

\* afterRequest(before, success) of a call that may be stale
AfterRequestOf(b, success, stale) ==
    LET c == CurrentState(b) IN
    IF c # b \/ stale THEN c
    ELSE IF success THEN OnSuccess(c) ELSE OnFailure(c)

\* the calls in flight, all stale once the breaker starts a new generation
Outdated(cs, newGeneration) ==
    [d \in Callers |->
        IF newGeneration /\ cs[d].pc = "inflight" THEN [cs[d] EXCEPT !.stale = TRUE]
        ELSE cs[d]]

\* FetchOrders is called: beforeRequest, and the return when it refuses
CallerBefore(c) ==
    /\ callers[c].pc = "idle"
    /\ \E args \in Args :
          LET r == BeforeRequest(cb)
              newGeneration == CurrentState(cb) # cb
              since == IF newGeneration THEN 0 ELSE probes
          IN  /\ cb' = r.cb
              /\ callers' = [Outdated(callers, newGeneration) EXCEPT
                                ![c] = IF r.err = Nil
                                       THEN Caller("inflight", args, FALSE, Nil, FALSE)
                                       ELSE Caller("idle", "ok", FALSE, r.err, FALSE)]
              /\ probes' = IF r.cb.state # "half-open" THEN 0
                           ELSE IF r.err = Nil THEN since + 1 ELSE since
              /\ streak' = IF newGeneration THEN 0 ELSE streak
    /\ UNCHANGED <<maxConcurrency, pc, ctxDone, fetchVars, runVars, taskVars, rt, cmp, resp>>

\* doFetchOrders returns err, from its checks or from the request; afterRequest;
\* FetchOrders returns
CallerAfter(c) ==
    /\ callers[c].pc = "inflight"
    /\ \E err \in IF Precondition(callers[c].args) # Nil
                  THEN {Precondition(callers[c].args)}
                  ELSE {Nil} \cup FetchErrors :
          LET counted == CurrentState(cb) = cb /\ ~callers[c].stale
              after == AfterRequestOf(cb, err = Nil, callers[c].stale)
              newGeneration == CurrentState(cb) # cb \/ after.state # cb.state
          IN  /\ cb' = after
              /\ callers' = [Outdated(callers, newGeneration) EXCEPT
                                ![c] = Caller("idle", "ok", FALSE, err,
                                              Precondition(callers[c].args) = Nil)]
              /\ probes' = IF after.state # "half-open" \/ newGeneration THEN 0 ELSE probes
              /\ streak' = IF newGeneration THEN 0
                           ELSE IF ~counted THEN streak
                           ELSE IF err = Nil THEN 0 ELSE streak + 1
    /\ UNCHANGED <<maxConcurrency, pc, ctxDone, fetchVars, runVars, taskVars, rt, cmp, resp>>

(***************************************************************************)
(* retry.WithRetry(ctx, attempts, baseDelay, fn) called on its own, with   *)
(* any operation fn.  Durations are in ticks; attempts stay far below the  *)
(* width of the shift and of time.Duration.                                *)
(***************************************************************************)
\* what fn returns when it fails
OpErrors == {Err("op_failed_a", FALSE), Err("op_failed_b", FALSE)}

RECURSIVE Shl(_, _)
\* x << n
Shl(x, n) == IF n = 0 THEN x ELSE Shl(2 * x, n - 1)

\* (variant for C17: the shift is by i)
BackoffShifted(baseDelay, n) == baseDelay * Shl(1, n)
\* sleep := baseDelay * time.Duration(1<<uint(i-1))
Backoff(baseDelay, n) == baseDelay * Shl(1, n - 1)

\* jitter := time.Duration(rand.Int63n(int64(baseDelay)))
Jitters(baseDelay) == 0..(baseDelay - 1)

\* (variant for C16: the loop sleeps after the last attempt too)
LastAttemptNever(n, total) == FALSE
\* `if i == attempts`
LastAttempt(n, total) == n = total

\* (variant for C18: a cancelled call returns the operation's last error)
CancelledWithLastErr(err) == err
\* `return ctx.Err()`
CancelledWith(err) == ContextErr

\* WithRetry returns e
RetryReturn(r, e) == [r EXCEPT !.pc = "returned", !.ret = e]

\* WithRetry is called
RetryCall ==
    /\ rt.pc \in {"idle", "returned"}
    /\ \E n \in 0..MaxAttempts, d \in 1..MaxDelay :
          rt' = [pc |-> "check", attempts |-> n, baseDelay |-> d, i |-> 1, err |-> Nil,
                 ret |-> Nil, invoked |-> 0, errs |-> <<>>, sleeps |-> <<>>, cut |-> "none"]
    /\ ctxDone' = FALSE
    /\ UNCHANGED <<maxConcurrency, cb, pc, fetchVars, runVars, taskVars, callers, probes,
                   streak, cmp, resp>>

\* the loop head `i <= attempts`, the select on ctx.Done(), the call of fn
RetryCheck ==
    /\ rt.pc = "check"
    /\ rt' = IF rt.i > rt.attempts THEN RetryReturn(rt, rt.err)
             ELSE IF ctxDone
             THEN [RetryReturn(rt, CancelledWith(rt.err)) EXCEPT !.cut = "check"]
             ELSE [rt EXCEPT !.pc = "call", !.invoked = @ + 1]
    /\ UNCHANGED <<maxConcurrency, cb, pc, ctxDone, fetchVars, runVars, taskVars, callers,
                   probes, streak, cmp, resp>>

\* fn returns e: the return, the break, or the start of the backoff sleep
RetryFn ==
    /\ rt.pc = "call"
    /\ \E e \in {Nil} \cup OpErrors, jitter \in Jitters(rt.baseDelay) :
          LET r == [rt EXCEPT !.err = e, !.errs = Append(@, e)] IN
          rt' = IF e = Nil THEN RetryReturn(r, Nil)
                ELSE IF LastAttempt(rt.i, rt.attempts) THEN RetryReturn(r, e)
                ELSE [r EXCEPT !.pc = "sleep",
                               !.sleeps = Append(@, Backoff(rt.baseDelay, rt.i) + jitter)]
    /\ UNCHANGED <<maxConcurrency, cb, pc, ctxDone, fetchVars, runVars, taskVars, callers,
                   probes, streak, cmp, resp>>

\* the select of the sleep: time.After(totalSleep), or ctx.Done()
RetrySleep ==
    /\ rt.pc = "sleep"
    /\ \E woke \in {"timer"} \cup (IF ctxDone THEN {"ctx"} ELSE {}) :
          rt' = IF woke = "ctx"
                THEN [RetryReturn(rt, CancelledWith(rt.err)) EXCEPT !.cut = "sleep"]
                ELSE [rt EXCEPT !.pc = "check", !.i = @ + 1]
    /\ UNCHANGED <<maxConcurrency, cb, pc, ctxDone, fetchVars, runVars, taskVars, callers,
                   probes, streak, cmp, resp>>

(***************************************************************************)
(* compare.CompareOrderStatus called on its own, on any order.             *)
(***************************************************************************)
Statuses == {"A", "B", "C"}

\* histories of up to MaxHist entries
AnyHistories == UNION {[1..n -> Statuses] : n \in 0..MaxHist}

\* CompareOrderStatus(order) is called and returns
Compare ==
    /\ \E id \in 1..2, h \in AnyHistories :
          cmp' = [pc |-> "compared", order |-> Order(id, h),
                  res |-> CompareOrderStatus(Order(id, h))]
    /\ UNCHANGED <<maxConcurrency, cb, pc, ctxDone, fetchVars, runVars, taskVars, callers,
                   probes, streak, rt, resp>>

(***************************************************************************)
(* doFetchOrders' reading of one upstream response, for any final status.  *)
(***************************************************************************)
AnyStatusCodes == 200..599

\* c.http.Do returns a response and doFetchOrders classifies it
Respond ==
    /\ \E status \in AnyStatusCodes,
          body \in {Body(FALSE, <<>>), Body(TRUE, <<>>), Body(TRUE, <<Order(1, <<"A">>)>>)} :
          resp' = [pc |-> "classified", status |-> status, body |-> body,
                   out |-> Classify(status, body),
                   cb |-> AfterRequest(BeforeRequest(cb).cb, Classify(status, body).err = Nil)]
    /\ UNCHANGED <<maxConcurrency, cb, pc, ctxDone, fetchVars, runVars, taskVars, callers,
                   probes, streak, rt, cmp>>

Init ==
    /\ maxConcurrency \in 0..MaxW
    /\ cb = NewGeneration("closed")
    /\ pc = "fetchLoop"
    /\ ctxDone = FALSE
    /\ page = 1
    /\ allOrders = <<>>
    /\ calls = 0
    /\ httpCalls = 0
    /\ served = <<>>
    /\ requests = <<>>
    /\ lastErr = Nil
    /\ ret = Fetched(<<>>, Nil)
    /\ out = [result |-> "nil", err |-> Nil]
    /\ result = ProcessResult(0)
    /\ i = 1
    /\ tasks = <<>>
    /\ sem = 0
    /\ wg = 0
    /\ failedWebhooks = <<>>
    /\ chClosed = FALSE
    /\ panicked = FALSE
    /\ compared = <<>>
    /\ callers = [c \in Callers |-> Caller("idle", "ok", FALSE, Nil, FALSE)]
    /\ probes = 0
    /\ streak = 0
    /\ rt = [pc |-> "idle"]
    /\ cmp = [pc |-> "idle"]
    /\ resp = [pc |-> "idle"]

Next ==
    \/ FetchLoop
    \/ DoFetch
    \/ HttpReturn(SmallPages)
    \/ Tick
    \/ Deadline
    \/ HandleFetched
    \/ Iterate
    \/ WaitAndClose
    \/ Drain
    \/ \E t \in 1..MaxOrders : TaskStep(t)
    \/ NextRun

Spec == Init /\ [][Next]_vars

NextPages ==
    \/ FetchLoop
    \/ DoFetch
    \/ HttpReturn(BigPages)
    \/ Tick
    \/ Deadline
    \/ HandleFetched
    \/ NextFetch

SpecPages == Init /\ [][NextPages]_vars

\* pagination against an upstream that answers identical requests identically
NextUpstream ==
    \/ FetchLoop
    \/ DoFetch
    \/ HttpReturn(UpstreamPages)
    \/ Tick
    \/ Deadline
    \/ HandleFetched
    \/ NextFetch

SpecUpstream == Init /\ [][NextUpstream]_vars

NextBreaker ==
    \/ \E c \in Callers : CallerBefore(c)
    \/ \E c \in Callers : CallerAfter(c)
    \/ Tick

SpecBreaker == Init /\ [][NextBreaker]_vars

NextRetry ==
    \/ RetryCall
    \/ RetryCheck
    \/ RetryFn
    \/ RetrySleep
    \/ Deadline

SpecRetry == Init /\ [][NextRetry]_vars

SpecCompare == Init /\ [][Compare]_vars

SpecClassify == Init /\ [][Respond]_vars

\* the goroutines are scheduled: a delivery goroutine that can take a step
\* takes one (every POST returns, the client's Timeout bounds it)
LiveSpec == Spec /\ \A t \in 1..MaxOrders : WF_vars(TaskStep(t))

\* the goroutine of the run is scheduled too, and every upstream call returns
RunSpec ==
    /\ LiveSpec
    /\ WF_vars(FetchLoop) /\ WF_vars(DoFetch) /\ WF_vars(HttpReturn(SmallPages))
    /\ WF_vars(HandleFetched) /\ WF_vars(Iterate) /\ WF_vars(WaitAndClose) /\ WF_vars(Drain)

(***************************************************************************)
(* Properties.                                                             *)
(***************************************************************************)
RECURSIVE Flatten(_)
Flatten(ps) == IF ps = <<>> THEN <<>> ELSE Head(ps) \o Flatten(Tail(ps))

HoldingTasks == {t \in DOMAIN tasks : tasks[t].pc \in Holding}

\* C1: with a semaphore of width W >= 1, at most W delivery tasks are between
\* acquiring and releasing a slot at any time, a task that has finished holds
\* no slot whether its delivery succeeded or failed, and every spawned task
\* eventually completes.
C1_BoundedAndComplete ==
    /\ [](maxConcurrency >= 1 =>
            /\ Cardinality(HoldingTasks) <= maxConcurrency
            /\ sem = Cardinality(HoldingTasks))
    /\ \A t \in 1..MaxOrders :
          (maxConcurrency >= 1 /\ t \in DOMAIN tasks)
              ~> (t \in DOMAIN tasks /\ tasks[t].pc = "done")

\* width 1, two tasks: one has finished with a failed delivery and released
\* the slot, the other holds it
C1_Witness ==
    /\ maxConcurrency = 1
    /\ Len(tasks) = 2
    /\ \E t, u \in DOMAIN tasks :
          /\ tasks[t].pc = "done" /\ tasks[t].err # Nil
          /\ tasks[u].pc \in Holding

\* C2: HandleOrderRequest returns a result for a run with fetched orders only
\* after draining: the channel has been closed, every delivery task spawned by
\* the run has completed, and every failed task is in the failed-webhook list.
C2_ReturnsAfterDraining ==
    (pc = "returned" /\ out.result = "result" /\ result.TotalOrders > 0) =>
        /\ chClosed
        /\ \A t \in DOMAIN tasks :
              /\ tasks[t].pc = "done"
              /\ tasks[t].err # Nil =>
                    \E k \in DOMAIN result.FailedWebhooks :
                        result.FailedWebhooks[k].OrderID = tasks[t].orderID

\* C3: the failure channel is closed only when every spawned task has finished,
\* it is read (drained into the result) only once closed, and no task sends on
\* the closed channel.
C3_CloseAfterJoin ==
    /\ chClosed => AllDone
    /\ pc = "drain" => chClosed
    /\ result.FailedWebhooks # <<>> => chClosed
    /\ ~panicked

\* the channel is closed with a failure record in it, left by one of two tasks
C3_Witness ==
    /\ pc = "drain"
    /\ chClosed
    /\ Len(tasks) = 2
    /\ failedWebhooks # <<>>

\* C4: when the check before order K+1 (K = i - 1) finds the deadline elapsed,
\* the run returns a result with orders_processed = K, partial_timeout set and
\* the note of K as its last note; orders K+1.. are never compared and no
\* task is spawned for them.
C4_DeadlineStopsAtK ==
    [][(pc = "iter" /\ ctxDone /\ (pc' # pc \/ i' # i \/ result' # result)) =>
          /\ pc' = "returned"
          /\ out' = [result |-> "result", err |-> Nil]
          /\ i - 1 < result'.TotalOrders
          /\ result'.OrdersProcessed = i - 1
          /\ result'.PartialTimeout
          /\ result'.Errors # <<>>
          /\ result'.Errors[Len(result'.Errors)] = Note("cancelled", i - 1)
          /\ compared' = [j \in 1..(i - 1) |-> j]
          /\ tasks' = tasks
          /\ \A t \in DOMAIN tasks' : tasks'[t].orderID <= i - 1]_vars

\* the deadline was met after the first of two orders
C4_Witness ==
    /\ pc = "returned"
    /\ result.PartialTimeout
    /\ result.TotalOrders = 2
    /\ result.OrdersProcessed = 1
    /\ compared = <<1>>

\* C5: a finished delivery task ran its own retry cycle to the end, a 2xx or
\* 3 POST attempts, and was not ended with the context's cancellation cause.
C5_TaskNotCutShort ==
    \A t \in DOMAIN tasks :
        tasks[t].pc = "done" =>
            /\ tasks[t].err # ContextErr
            /\ tasks[t].err = Nil \/ tasks[t].attemptCount = attempts

\* C6: once FetchAllOrders has returned without error, HandleOrderRequest
\* returns a nil error and a non-nil result.
C6_NoErrorAfterFetch ==
    (pc = "returned" /\ ret.err = Nil) => out = [result |-> "result", err |-> Nil]

\* a run that met the deadline after an order whose webhook then failed has
\* returned
C6_Witness ==
    /\ pc = "returned"
    /\ ret.err = Nil
    /\ result.PartialTimeout
    /\ \E t \in DOMAIN tasks : tasks[t].pc = "done" /\ tasks[t].err # Nil

\* C7: the run never returns the cancellation of its context as an error.
C7_DeadlineNeverError ==
    pc = "returned" =>
        out.err \notin {Err("context_cancelled_before_request", FALSE)} \cup ContextErrors

AllFull(ps) == \A j \in DOMAIN ps : Len(ps[j]) = pageSize

\* C8: when upstream has answered with k - 1 full pages and then a short one,
\* FetchAllOrders has made exactly k FetchOrders calls, k <= 10, and returns
\* the k pages concatenated in page order with a nil error, the cap not hit;
\* and it ends a run of answered calls nowhere but at a short page or the cap.
C8_PagesConcatenated ==
    pc = "fetched" =>
        /\ (/\ served # <<>>
            /\ Len(served[Len(served)]) < pageSize
            /\ AllFull(SubSeq(served, 1, Len(served) - 1)))
           => /\ Len(served) <= maxPages
              /\ calls = Len(served)
              /\ httpCalls = Len(served)
              /\ page = Len(served)
              /\ ret = Fetched(Flatten(served), Nil)
        /\ (ret.err = Nil /\ lastErr = Nil /\ ~ctxDone)
           => /\ served # <<>>
              /\ Len(served[Len(served)]) < pageSize \/ Len(served) = maxPages

\* pages of 150, 150 and 37 orders: 337 orders in 3 calls
C8_Witness ==
    /\ pc = "fetched"
    /\ calls = 3
    /\ Len(served) = 3
    /\ Len(served[3]) = 37
    /\ Len(ret.orders) = 337

\* C9: one FetchAllOrders never makes more than 10 FetchOrders calls; after 10
\* full pages it has made exactly 10 and returns all of them with a nil error.
C9_PageCap ==
    /\ calls <= maxPages
    /\ httpCalls <= maxPages
    /\ (pc = "fetched" /\ Len(served) = maxPages /\ AllFull(served))
       => /\ calls = maxPages
          /\ ret = Fetched(Flatten(served), Nil)

\* ten full pages have been returned
C9_Witness ==
    /\ pc = "fetched"
    /\ Len(served) = maxPages
    /\ AllFull(served)
    /\ Len(ret.orders) = maxPages * pageSize

\* C10: when the first FetchOrders call of a run fails, FetchAllOrders returns
\* that error and no orders, and HandleOrderRequest returns that error and no
\* result; when a later call fails, FetchAllOrders returns the pages fetched
\* before it and a nil error.
C10_FirstPageErrorFatal ==
    /\ (pc = "fetched" /\ lastErr # Nil)
       => IF calls = 1
          THEN ret = Fetched(<<>>, lastErr)
          ELSE ret = Fetched(Flatten(served), Nil) /\ Len(served) = calls - 1
    /\ (pc = "returned" /\ lastErr # Nil /\ calls = 1)
       => out = [result |-> "nil", err |-> lastErr]

\* the breaker was open at the first call and the run has failed with that
C10_Witness ==
    /\ pc = "returned"
    /\ calls = 1
    /\ httpCalls = 0
    /\ out = [result |-> "nil", err |-> ErrOpenState]

\* the errors doFetchOrders makes of an upstream answer
UpstreamErrors ==
    {ErrBadRequest, ErrUnauthorized, ErrForbidden, ErrNotFound, ErrRateLimited,
     ErrServiceUnavailable, ErrExternalAPI(422), ErrExternalAPI(500),
     Err("invalid_json", FALSE)}

\* C11: when a FetchOrders call of a FetchAllOrders run fails with an upstream
\* error, the run returns that error if the error is non-retryable, whichever
\* page it is, or if the page is the first; a retryable error of a later page
\* is swallowed and the pages fetched before it are returned with a nil error.
C11_NonRetryableAborts ==
    (pc = "fetched" /\ lastErr \in UpstreamErrors) =>
        IF ~lastErr.retryable \/ calls = 1
        THEN ret.err = lastErr
        ELSE ret = Fetched(Flatten(served), Nil)

\* the cancellation of the run's context as doFetchOrders returns it
CancelledFetch == {Err("context_cancelled_before_request", FALSE)} \cup ContextErrors

\* C12: when FetchAllOrders stops because the context is done, seen by the
\* loop's check before a page, by doFetchOrders' check or by the request in
\* flight, at whichever page, it returns the pages accumulated so far with a
\* nil error.
C12_CancelledFetchReturnsPartial ==
    [][(/\ pc' = "fetched"
        /\ \/ pc = "fetchLoop" /\ ctxDone
           \/ pc = "doFetch" /\ ctxDone
           \/ pc = "http" /\ lastErr' \in CancelledFetch)
       => ret' = Fetched(Flatten(served), Nil)]_vars

\* caller c makes a FetchOrders call in this step
Calls(c) == callers[c].pc = "idle" /\ callers'[c] # callers[c]
\* the doFetchOrders of caller c returns in this step, its call not stale
Reports(c) == callers[c].pc = "inflight" /\ ~callers[c].stale /\ callers'[c].pc = "idle"

\* C13: the failure that takes the closed breaker past its threshold of
\* failures in a row (more than 5 in its current window) opens it; while the
\* breaker is open and the cooldown has not elapsed, every FetchOrders call of
\* any caller returns the breaker-open error without going to doFetchOrders,
\* and the breaker stays open.
C13_OpenFailsFast ==
    [][/\ \A c \in Callers :
             (/\ Reports(c) /\ callers'[c].err # Nil
              /\ cb.state = "closed" /\ ~cb.expired /\ streak = TripAfter)
             => cb'.state = "open" /\ ~cb'.expired
       /\ cb'.state = "closed" => streak' <= TripAfter
       /\ \A c \in Callers :
             (Calls(c) /\ cb.state = "open" /\ ~cb.expired)
             => /\ callers'[c].pc = "idle"
                /\ callers'[c].err = ErrOpenState
                /\ cb' = cb
       /\ (cb.state = "open" /\ ~cb.expired) => cb'.state = "open"]_vars

\* the breaker is open, one caller has been refused and the call of another,
\* let through before, is still in flight
C13_Witness ==
    /\ cb.state = "open" /\ ~cb.expired
    /\ \E c, d \in Callers :
          /\ callers[c].pc = "idle" /\ callers[c].err = ErrOpenState
          /\ callers[d].pc = "inflight" /\ callers[d].stale

\* C14: once the cooldown has elapsed, a FetchOrders call is let through to
\* doFetchOrders exactly when fewer than MaxRequests = 3 calls have been let
\* through since the breaker went half-open; every other call made while the
\* breaker is half-open is refused without a network call, whatever the
\* interleaving of the callers.
C14_HalfOpenQuota ==
    [][/\ cb'.state = "half-open" => probes' <= MaxRequests
       /\ \A c \in Callers :
             (Calls(c) /\ (cb.state = "half-open" \/ (cb.state = "open" /\ cb.expired)))
             => LET through == IF cb.state = "half-open" THEN probes ELSE 0 IN
                IF through < MaxRequests
                THEN /\ callers'[c].pc = "inflight"
                     /\ probes' = through + 1
                ELSE /\ callers'[c].pc = "idle"
                     /\ callers'[c].err = ErrTooManyRequests
                     /\ probes' = through
                     /\ cb' = cb]_vars

\* half-open with the quota used: a call has been refused while a probe is
\* still in flight
C14_Witness ==
    /\ cb.state = "half-open"
    /\ probes = MaxRequests
    /\ \E c, d \in Callers :
          /\ callers[c].pc = "idle" /\ callers[c].err = ErrTooManyRequests
          /\ callers[d].pc = "inflight" /\ ~callers[d].stale

\* the breaker's transitions
Transitions ==
    {<<"closed", "open">>, <<"open", "half-open">>, <<"half-open", "closed">>,
     <<"half-open", "open">>}

\* C15 as stated: in half-open a successful probe closes the breaker and a
\* failed probe reopens it, and the breaker's state changes only along closed
\* to open, open to half-open, half-open to closed and half-open to open.
C15_ProbeDecides ==
    [][/\ \A c \in Callers :
             (Reports(c) /\ cb.state = "half-open")
             => cb'.state = IF callers'[c].err = Nil THEN "closed" ELSE "open"
       /\ cb'.state # cb.state => <<cb.state, cb'.state>> \in Transitions]_vars

\* C15 amended: in half-open a failed probe reopens the breaker; a successful
\* probe closes it when it is the third (MaxRequests-th) success since the
\* breaker went half-open and leaves it half-open before that; the state
\* changes only along the four transitions.
C15_ProbesDecide ==
    [][/\ \A c \in Callers :
             (Reports(c) /\ cb.state = "half-open")
             => cb'.state = IF callers'[c].err # Nil THEN "open"
                            ELSE IF cb.ConsecutiveSuccesses = MaxRequests - 1 THEN "closed"
                            ELSE "half-open"
       /\ cb'.state # cb.state => <<cb.state, cb'.state>> \in Transitions]_vars

\* two probes have succeeded and the breaker is still half-open, the third
\* in flight
C15_Witness ==
    /\ cb.state = "half-open"
    /\ cb.ConsecutiveSuccesses = 2
    /\ \E c, d \in Callers :
          /\ callers[c].pc = "idle" /\ callers[c].err = Nil
          /\ callers[d].pc = "inflight" /\ ~callers[d].stale

\* WithRetry is running or has returned
Retrying == rt.pc # "idle"

AllFailed(es) == \A k \in DOMAIN es : es[k] # Nil

\* C16: WithRetry with N >= 1 attempts invokes the operation at most N times,
\* returns at the first success without another invocation, has slept at most
\* N - 1 times and returned once the N-th attempt is made, and when all N
\* attempts failed and no cancellation was met returns the N-th error.
C16_AtMostNAttempts ==
    (Retrying /\ rt.attempts >= 1) =>
        /\ rt.invoked <= rt.attempts
        /\ Len(rt.errs) <= rt.invoked
        /\ \A k \in DOMAIN rt.errs :
              rt.errs[k] = Nil => (k = Len(rt.errs) /\ rt.pc = "returned" /\ rt.ret = Nil)
        /\ Len(rt.sleeps) <= rt.attempts - 1
        /\ Len(rt.errs) = rt.attempts => (rt.pc = "returned" /\ Len(rt.sleeps) = rt.attempts - 1)
        /\ (rt.pc = "returned" /\ Len(rt.errs) = rt.attempts /\ AllFailed(rt.errs))
           => (rt.ret = rt.errs[rt.attempts] /\ rt.cut = "none")

\* three attempts have failed, the last with another error than the first,
\* and WithRetry has returned
C16_Witness ==
    /\ Retrying
    /\ rt.pc = "returned"
    /\ rt.attempts = 3
    /\ Len(rt.errs) = 3
    /\ AllFailed(rt.errs)
    /\ rt.errs[1] # rt.errs[3]

\* C17: the k-th sleep of WithRetry follows failed attempt k < N and its
\* duration lies in [d * 2^(k-1), d * 2^(k-1) + d); a call whose operation
\* fails on attempts 1 and 2 and succeeds on attempt 3 returns nil after
\* exactly 2 sleeps.
C17_BackoffWindow ==
    Retrying =>
        /\ \A k \in DOMAIN rt.sleeps :
              /\ k < rt.attempts
              /\ k <= Len(rt.errs) /\ rt.errs[k] # Nil
              /\ rt.baseDelay * 2^(k - 1) <= rt.sleeps[k]
              /\ rt.sleeps[k] < rt.baseDelay * 2^(k - 1) + rt.baseDelay
        /\ (/\ rt.pc = "returned" /\ Len(rt.errs) = 3
            /\ rt.errs[1] # Nil /\ rt.errs[2] # Nil /\ rt.errs[3] = Nil)
           => (rt.ret = Nil /\ Len(rt.sleeps) = 2)

\* base delay 2: failures on attempts 1 and 2 with sleeps of 3 and 5 ticks,
\* then success on attempt 3
C17_Witness ==
    /\ Retrying
    /\ rt.pc = "returned"
    /\ rt.baseDelay = 2
    /\ Len(rt.errs) = 3
    /\ rt.errs[3] = Nil
    /\ rt.sleeps = <<3, 5>>
    /\ rt.ret = Nil

\* C18: a step WithRetry takes from its check before an attempt or from its
\* backoff sleep once the context is done invokes the operation no more, and
\* when WithRetry returns by it, at once from the check, it returns ctx.Err().
C18_CancelStopsRetry ==
    [][(/\ Retrying /\ ctxDone /\ rt' # rt
        /\ rt.pc \in {"check", "sleep"} /\ rt.i <= rt.attempts)
       => /\ rt'.invoked = rt.invoked
          /\ rt'.errs = rt.errs
          /\ rt.pc = "check" => rt'.pc = "returned"
          /\ rt'.pc = "returned" => (rt'.ret = ContextErr /\ rt'.cut # "none")]_vars

\* cancelled during the sleep after a failed attempt: the cancellation cause
\* is returned, not that attempt's error
C18_Witness ==
    /\ Retrying
    /\ rt.pc = "returned"
    /\ rt.cut = "sleep"
    /\ rt.err \in OpErrors
    /\ rt.ret = ContextErr

\* C19: for an order with two or more history entries CompareOrderStatus
\* returns no error, Changed exactly when the statuses of the last two entries
\* differ, OldStatus the second-to-last status and NewStatus the last one,
\* whatever the earlier entries are.
C19_LastTwoCompared ==
    (cmp.pc = "compared" /\ Len(cmp.order.History) >= 2) =>
        LET h == cmp.order.History
            n == Len(h)
        IN  /\ cmp.res.err = Nil
            /\ cmp.res.Changed = (h[n] # h[n - 1])
            /\ cmp.res.OldStatus = h[n - 1]
            /\ cmp.res.NewStatus = h[n]
            /\ cmp.res.OrderID = cmp.order.ID

\* a history whose last two entries differ and whose first and last agree
C19_Witness ==
    /\ cmp.pc = "compared"
    /\ cmp.order.History = <<"A", "B", "A">>
    /\ cmp.res.Changed
    /\ cmp.res.OldStatus = "B"

\* C20: the pass of the loop over an order with exactly one history entry
\* appends a detail with changed = true, previous status "" and that entry's
\* status as the current one, and spawns a delivery task for the order.
C20_SingleEntryIsChange ==
    [][(/\ pc = "iter" /\ i' = i + 1
        /\ Len(orders[i].History) = 1)
       => /\ result'.Details =
                Append(result.Details,
                       [OrderID |-> orders[i].ID, PreviousState |-> "",
                        CurrentState |-> orders[i].History[1], Changed |-> TRUE])
          /\ result'.OrdersSkipped = result.OrdersSkipped
          /\ result'.WebhooksQueued = result.WebhooksQueued + 1
          /\ Len(tasks') = Len(tasks) + 1
          /\ tasks'[Len(tasks')].orderID = orders[i].ID
          /\ tasks'[Len(tasks')].pc = "acquire"]_vars

\* the task of an order with one history entry has delivered its webhook
C20_Witness ==
    /\ result.Details # <<>>
    /\ result.Details[1].PreviousState = ""
    /\ result.Details[1].Changed
    /\ tasks # <<>>
    /\ tasks[1].orderID = 1
    /\ tasks[1].pc = "done"
    /\ tasks[1].err = Nil
    /\ Len(orders[1].History) = 1

\* C21: CompareOrderStatus returns an error for an order with an empty
\* history, and the pass of the loop over such an order counts it as processed
\* and as skipped, appends an error note naming it, appends no detail, spawns
\* no task and goes on to the next order.
C21_EmptyHistorySkipped ==
    [][(/\ pc = "iter" /\ i' = i + 1
        /\ orders[i].History = <<>>)
       => /\ CompareOrderStatus(orders[i]).err # Nil
          /\ result'.OrdersProcessed = result.OrdersProcessed + 1
          /\ result'.OrdersSkipped = result.OrdersSkipped + 1
          /\ result'.Errors = Append(result.Errors, Note("skipped", orders[i].ID))
          /\ result'.Details = result.Details
          /\ result'.ChangesDetected = result.ChangesDetected
          /\ result'.WebhooksQueued = result.WebhooksQueued
          /\ tasks' = tasks
          /\ wg' = wg
          /\ pc' = IF i < Len(orders) THEN "iter" ELSE "wait"]_vars

\* the first order had no history and was skipped, the second has its detail
C21_Witness ==
    /\ pc = "returned"
    /\ compared = <<1, 2>>
    /\ orders[1].History = <<>>
    /\ result.OrdersSkipped = 1
    /\ result.OrdersProcessed = 2
    /\ Len(result.Details) = 1
    /\ result.Details[1].OrderID = 2

\* the records of the tasks that have finished with a failed delivery
FailureRecords ==
    {FailedWebhook(tasks[t], tasks[t].err) :
        t \in {u \in DOMAIN tasks : tasks[u].pc = "done" /\ tasks[u].err # Nil}}

Range(f) == {f[k] : k \in DOMAIN f}

C24_ChannelNeverFull ==
    (pc \in {"iter", "wait", "drain", "returned"} /\ ret.err = Nil) =>
        /\ Capacity = Len(orders)
        /\ Len(tasks) <= Capacity
        /\ Len(failedWebhooks) <= Cardinality(FailureRecords)
        /\ \A j, k \in DOMAIN failedWebhooks :
              failedWebhooks[j].OrderID = failedWebhooks[k].OrderID => j = k
        /\ \A t \in DOMAIN tasks : tasks[t].pc # "done" => Len(failedWebhooks) < Capacity

\* two orders, both tasks failed: the channel holds two records
C24_Witness ==
    /\ pc = "wait"
    /\ Len(orders) = 2
    /\ Len(failedWebhooks) = 2
    /\ AllDone

\* C25: when FetchAllOrders has returned no orders and no error, the next
\* step of the run is its return, with a nil error and a result whose counters
\* are all zero, whose lists are empty and whose partial-timeout flag is
\* false; no delivery task exists.
C25_NoOrdersZeroResult ==
    [][(pc = "fetched" /\ ret = Fetched(<<>>, Nil) /\ pc' # pc)
       => /\ pc' = "returned"
          /\ out' = [result |-> "result", err |-> Nil]
          /\ result' = [TotalOrders |-> 0, OrdersProcessed |-> 0, ChangesDetected |-> 0,
                        WebhooksQueued |-> 0, WebhooksPending |-> 0, OrdersSkipped |-> 0,
                        Errors |-> <<>>, Details |-> <<>>, FailedWebhooks |-> <<>>,
                        PartialTimeout |-> FALSE]
          /\ tasks' = <<>>
          /\ wg' = 0
          /\ compared' = <<>>]_vars

\* upstream answered the first page with an empty list and the run returned
C25_Witness ==
    /\ pc = "returned"
    /\ served = << <<>> >>
    /\ ret = Fetched(<<>>, Nil)
    /\ out = [result |-> "result", err |-> Nil]
    /\ result.TotalOrders = 0

\* the run has fetched orders and is in or past its loop
InRun == pc \in {"iter", "wait", "drain", "returned"} /\ ret.err = Nil /\ Len(orders) > 0

IsChange(h) == Len(h) = 1 \/ (Len(h) >= 2 /\ h[Len(h)] # h[Len(h) - 1])

RECURSIVE ExpectedDetails(_, _)
\* the details of the first n orders: one per order with a history, in order
ExpectedDetails(os, n) ==
    IF n = 0 THEN <<>>
    ELSE LET h == os[n].History IN
         IF h = <<>> THEN ExpectedDetails(os, n - 1)
         ELSE Append(ExpectedDetails(os, n - 1),
                     [OrderID |-> os[n].ID,
                      PreviousState |-> IF Len(h) = 1 THEN "" ELSE h[Len(h) - 1],
                      CurrentState |-> h[Len(h)],
                      Changed |-> IsChange(h)])

\* C26: at every point of a run, whatever the delivery tasks have done so far,
\* the details list is the sequence of the orders iterated so far that were
\* not skipped, in fetch order.
C26_DetailsInFetchOrder ==
    InRun => result.Details = ExpectedDetails(orders, i - 1)

\* two details in fetch order, the second order's task finished before the
\* first one's
C26_Witness ==
    /\ InRun
    /\ Len(result.Details) = 2
    /\ result.Details[1].OrderID = 1
    /\ result.Details[2].OrderID = 2
    /\ Len(tasks) = 2
    /\ tasks[2].pc = "done"
    /\ tasks[1].pc # "done"

RECURSIVE ExpectedSpawned(_, _)
\* the orders among the first n that changed, in order
ExpectedSpawned(os, n) ==
    IF n = 0 THEN <<>>
    ELSE IF IsChange(os[n].History) THEN Append(ExpectedSpawned(os, n - 1), os[n].ID)
    ELSE ExpectedSpawned(os, n - 1)

\* C30: the delivery tasks of a run are, one each and no others, those of the
\* orders iterated so far whose transition has changed = true, and
\* webhooks_queued is their number.
C30_TaskIffChanged ==
    InRun =>
        /\ [t \in DOMAIN tasks |-> tasks[t].orderID] = ExpectedSpawned(orders, i - 1)
        /\ result.WebhooksQueued = Len(tasks)
        /\ result.ChangesDetected = Len(tasks)

\* of two iterated orders the first was unchanged, the second changed: one task
C30_Witness ==
    /\ InRun
    /\ compared = <<1, 2>>
    /\ orders[1].History = <<"A", "A">>
    /\ Len(tasks) = 1
    /\ tasks[1].orderID = 2
    /\ result.WebhooksQueued = 1

\* C28: a FetchAllOrders run whose page request is answered with 404 returns
\* the orders found so far, none when the page is the first, and a nil
\* error, and the run does not fail.
C28_NotFoundIsNoOrders ==
    /\ (pc = "fetched" /\ lastErr = ErrNotFound) => ret = Fetched(Flatten(served), Nil)
    /\ (pc = "returned" /\ lastErr = ErrNotFound) => out.err = Nil

\* C27: for every status code s of an upstream response, doFetchOrders
\* succeeds (the body being what it should) when s is 200, 201 or 204, and
\* otherwise returns an error whose retryable flag is true exactly when s is
\* 429, 503 or any s >= 500.
C27_StatusClassified ==
    resp.pc = "classified" =>
        IF resp.status \in {200, 201, 204}
        THEN resp.body.wellFormed => resp.out = Fetched(resp.body.objects, Nil)
        ELSE /\ resp.out.err # Nil
             /\ resp.out.orders = <<>>
             /\ resp.out.err.retryable = (resp.status = 429 \/ resp.status >= 500)

\* C29: a FetchOrders call that doFetchOrders rejects for its arguments (an
\* empty apiKey, date or countrySuffix, a suffix shorter than 2 characters)
\* puts no request on the network and leaves the breaker's state and its
\* count of failures as they were.
C29_PreconditionNotCounted ==
    [][\A c \in Callers :
          (/\ callers[c].pc = "inflight" /\ callers[c].args # "ok"
           /\ callers'[c].pc = "idle" /\ ~cb.expired)
          => /\ ~callers'[c].net
             /\ cb'.state = cb.state
             /\ cb'.ConsecutiveFailures = cb.ConsecutiveFailures]_vars

\* C31: each delivery task makes at most 3 POSTs, carrying the X-Retry-Attempt
\* values 1, 2, 3 in that order, makes none after a POST answered with a 2xx,
\* and, once finished, has reported a delivery failure exactly when none of
\* its POSTs was answered with a 2xx.
C31_AttemptsNumberedAndReported ==
    \A t \in DOMAIN tasks :
        LET posts == tasks[t].posts IN
        /\ Len(posts) <= attempts
        /\ \A k \in DOMAIN posts : posts[k].header = k
        /\ \A k \in DOMAIN posts : k < Len(posts) => posts[k].answer \notin {"2xx", "pending"}
        /\ tasks[t].pc = "done" =>
              (tasks[t].reported <=> \A k \in DOMAIN posts : posts[k].answer # "2xx")
\* one task succeeded at its third POST and reported nothing, another reported
\* a failure after three POSTs none of which was answered with a 2xx
C31_Witness ==
    \E t, u \in DOMAIN tasks :
        /\ tasks[t].pc = "done" /\ tasks[u].pc = "done"
        /\ Len(tasks[t].posts) = attempts /\ tasks[t].posts[attempts] = Post(attempts, "2xx")
        /\ ~tasks[t].reported
        /\ Len(tasks[u].posts) = attempts /\ tasks[u].posts[attempts].answer = WebhookFailed.kind
        /\ tasks[u].reported

\* the places of the sequence s whose element satisfies Test
Places(s, Test(_)) == {k \in DOMAIN s : Test(s[k])}

\* C32: when a run that iterated every fetched order has returned, its
\* failed-webhook list holds one record, naming the order, for each spawned
\* task whose delivery failed, none for a task that delivered and none for
\* anything else, and the result has one webhook error note per record.
C32_OneRecordPerFailure ==
    (/\ pc = "returned" /\ out.result = "result"
     /\ result.TotalOrders > 0 /\ result.OrdersProcessed = result.TotalOrders) =>
        /\ \A t \in DOMAIN tasks :
              LET Mine(r) == r.OrderID = tasks[t].orderID
                  Noted(n) == n = Note("webhook_failed", tasks[t].orderID) IN
              /\ tasks[t].pc = "done"
              /\ Cardinality(Places(result.FailedWebhooks, Mine))
                    = IF tasks[t].err = Nil THEN 0 ELSE 1
              /\ Cardinality(Places(result.Errors, Noted))
                    = IF tasks[t].err = Nil THEN 0 ELSE 1
              /\ \A k \in Places(result.FailedWebhooks, Mine) :
                    result.FailedWebhooks[k] = FailedWebhook(tasks[t], tasks[t].err)
        /\ \A k \in DOMAIN result.FailedWebhooks :
              \E t \in DOMAIN tasks : result.FailedWebhooks[k].OrderID = tasks[t].orderID
        /\ LET IsWebhookNote(n) == n.kind = "webhook_failed" IN
           Cardinality(Places(result.Errors, IsWebhookNote)) = Len(result.FailedWebhooks)
\* every order was iterated, both tasks failed on their three POSTs: two
\* records and two notes
C32_Witness ==
    /\ pc = "returned" /\ out.result = "result"
    /\ result.OrdersProcessed = result.TotalOrders
    /\ Len(tasks) = 2
    /\ \A t \in DOMAIN tasks : tasks[t].err = WebhookFailed /\ Len(tasks[t].posts) = attempts
    /\ Len(result.FailedWebhooks) = 2
    /\ Len(result.Errors) = 2

\* C33: every result that HandleOrderRequest returns has
\* OrdersProcessed <= TotalOrders, Len(Details) + OrdersSkipped =
\* OrdersProcessed, ChangesDetected = WebhooksQueued = the number of details
\* with Changed, Len(FailedWebhooks) <= WebhooksQueued and WebhooksPending = 0.
C33_ResultCountersAgree ==
    (pc = "returned" /\ out.result = "result") =>
        LET IsChanged(d) == d.Changed IN
        /\ result.OrdersProcessed <= result.TotalOrders
        /\ Len(result.Details) + result.OrdersSkipped = result.OrdersProcessed
        /\ result.ChangesDetected = result.WebhooksQueued
        /\ result.WebhooksQueued = Cardinality(Places(result.Details, IsChanged))
        /\ Len(result.FailedWebhooks) <= result.WebhooksQueued
        /\ result.WebhooksPending = 0
\* a returned result with a skipped order, and one whose changed order's
\* delivery failed
C33_Witness ==
    /\ pc = "returned" /\ out.result = "result"
    /\ result.OrdersProcessed = 2
    /\ result.OrdersSkipped = 1
    /\ result.WebhooksQueued = 1
    /\ Len(result.FailedWebhooks) = 1

\* C34: in every result that HandleOrderRequest returns, PartialTimeout is set
\* exactly when OrdersProcessed < TotalOrders, that is, when some fetched
\* order was never iterated.
C34_PartialIffOrdersLeft ==
    (pc = "returned" /\ out.result = "result") =>
        /\ result.PartialTimeout <=> result.OrdersProcessed < result.TotalOrders
        /\ result.PartialTimeout <=> \E k \in DOMAIN orders : k \notin Range(compared)
        /\ Len(compared) = result.OrdersProcessed
\* the deadline fell before the first of two orders: a flagged result with
\* nothing processed
C34_Witness ==
    /\ pc = "returned" /\ out.result = "result"
    /\ result.PartialTimeout
    /\ result.OrdersProcessed = 0
    /\ result.TotalOrders = 2
    /\ compared = <<>>

\* C35: the requests one FetchAllOrders run puts on the network differ from
\* one another (each asks for its own page), and what the run returns against
\* an upstream that answers identical requests identically does not hold the
\* same page of orders twice.
C35_PagesAdvance ==
    /\ \A j, k \in DOMAIN requests : j # k => requests[j].query # requests[k].query
    /\ pc = "fetched" =>
          \A j, k \in DOMAIN served : (j # k /\ served[j] # <<>>) => served[j] # served[k]

\* C36: every upstream call and every POST returning and every goroutine being
\* scheduled, a run that has spawned a delivery task (it met a changed order)
\* eventually returns, whatever the width maxConcurrency >= 0 of the semaphore.
C36_EveryRunReturns ==
    (tasks # <<>> /\ pc # "returned") ~> pc = "returned"

\* C37: when WithRetry has returned nil, one of its invocations of the
\* operation returned nil, whatever the attempts parameter (0 included) and
\* wherever the cancellation fell.
C37_NilOnlyAfterSuccess ==
    (Retrying /\ rt.pc = "returned" /\ rt.ret = Nil) =>
        \E k \in DOMAIN rt.errs : rt.errs[k] = Nil

\* C38: doFetchOrders returns a list without an error only for the status
\* codes 200, 201 and 204; for every other code, those below 400 included, it
\* returns an error, and the breaker, closed before the call, has counted the
\* call as a failure.
C38_OnlySuccessCodesSucceed ==
    resp.pc = "classified" =>
        /\ resp.out.err = Nil => resp.status \in {200, 201, 204}
        /\ resp.status \notin {200, 201, 204} =>
              /\ resp.out.err # Nil
              /\ resp.cb.ConsecutiveFailures = cb.ConsecutiveFailures + 1
              /\ resp.cb.ConsecutiveSuccesses = 0

=============================================================================
